---- MODULE Spec2Model ----
(***************************************************************************)
(* RemoteCommand (remcmd.py): one shell command run over an SSH session,   *)
(* with the PID captured by the wrapper `<command> & echo $!`, accessors   *)
(* over the captured result, and termination by `kill <pid>`.              *)
(*                                                                         *)
(* Text is modelled as a sequence of one-character strings, so that        *)
(* str.split, str.join, int() and str() are computed, not assumed.         *)
(***************************************************************************)
EXTENDS Integers, Sequences, FiniteSets, TLC

\* Number of writes the backgrounded command makes to standard output
\* before the wrapper's output is captured.
MaxWrites == 1

NL == "\n"

(***************************************************************************)
(* Text helpers: str(int), int(str), str.split('\n'), '\n'.join            *)
(***************************************************************************)
DigitChar == <<"0", "1", "2", "3", "4", "5", "6", "7", "8", "9">>

IsDigit(c) == \E i \in 1..10 : DigitChar[i] = c

DigitVal(c) == (CHOOSE i \in 1..10 : DigitChar[i] = c) - 1

RECURSIVE Str(_)
\* str(n) for n >= 0: canonical decimal, no leading zeros
Str(n) == IF n < 10 THEN <<DigitChar[n + 1]>>
          ELSE Str(n \div 10) \o <<DigitChar[(n % 10) + 1]>>

\* int(s) raises ValueError unless s is a non-empty run of digits
IsInt(s) == Len(s) > 0 /\ \A i \in 1..Len(s) : IsDigit(s[i])

RECURSIVE IntOf(_)
\* int(s) for a run of digits (leading zeros are accepted and dropped)
IntOf(s) == IF Len(s) = 0 THEN 0
            ELSE 10 * IntOf(SubSeq(s, 1, Len(s) - 1)) + DigitVal(s[Len(s)])

RECURSIVE Split(_)
\* s.split('\n'): k separators give k + 1 fields, the last possibly empty
Split(s) ==
    IF \A i \in 1..Len(s) : s[i] # NL THEN <<s>>
    ELSE LET k == CHOOSE i \in 1..Len(s) :
                      s[i] = NL /\ \A j \in 1..(i - 1) : s[j] # NL
         IN  <<SubSeq(s, 1, k - 1)>> \o Split(SubSeq(s, k + 1, Len(s)))

RECURSIVE Join(_)
\* '\n'.join(fields)
Join(fields) ==
    IF Len(fields) = 0 THEN <<>>
    ELSE IF Len(fields) = 1 THEN fields[1]
    ELSE fields[1] \o <<NL>> \o Join(Tail(fields))

RECURSIVE Flatten(_)
Flatten(ws) == IF Len(ws) = 0 THEN <<>> ELSE Head(ws) \o Flatten(Tail(ws))

(***************************************************************************)
(* Module-level flags and the values the program handles                   *)
(***************************************************************************)
\* main(): -v is counted; 0 = silent, 1 = print_statistic, 2 = also debug
Verbosity == 0..2

print_statistic(v) == v >= 1

debug(v) == v >= 2

\* Command texts given at construction
Commands == {<<"l", "s">>, <<"w">>}

\* The suffix run() appends: " & echo $!"
Suffix == <<" ", "&", " ", "e", "c", "h", "o", " ", "$", "!">>

\* self.result / self.kill before any assignment (None)
None == [present |-> FALSE, stdout |-> <<>>, stderr |-> "",
         return_code |-> 0, ok |-> FALSE]

\* The Result object client.run returns; Result.ok is return_code = 0
Result(out, err, rc) == [present |-> TRUE, stdout |-> out, stderr |-> err,
                         return_code |-> rc, ok |-> (rc = 0)]

\* What a call gave its caller: a returned value or a raised exception
Returned(t, i, s) == [exc |-> "none", rtype |-> t, ival |-> i, sval |-> s,
                      msg |-> "", context |-> FALSE]

Raised(e, m, c) == [exc |-> e, rtype |-> "none", ival |-> 0, sval |-> <<>>,
                    msg |-> m, context |-> c]

NoRequest == <<>>

\* The Connection object __init__ makes, and no connection at all
TheClient == "connection"

NoClient == "none"

(***************************************************************************)
(* The session's execute operation (client.run), seen from the caller      *)
(***************************************************************************)
\* PIDs the remote shell may give the backgrounded job
Pids == {7, 12}

\* One write of the backgrounded command to standard output
Chunks == {<<"h", NL>>, <<"3">>}

\* The writes the backgrounded command makes before the output is captured
JobWrites == UNION {[1..n -> Chunks] : n \in 0..MaxWrites}

\* `echo $!` writes the PID and a newline
PidLine(pid) == Str(pid) \o <<NL>>

\* `cmd & echo $!`: the job starts before the shell runs echo, so the PID
\* line lands after the first k of the job's writes, for any k
WrapperOutput(pid, ws, k) ==
    Flatten(SubSeq(ws, 1, k)) \o PidLine(pid) \o Flatten(SubSeq(ws, k + 1, Len(ws)))

\* How the backgrounded command ends, later: its own exit status, and
\* what it wrote to standard error before the output was captured
JobEnds == {[exit |-> 0, stderr |-> ""], [exit |-> 1, stderr |-> "warning"]}

\* What the remote shell did with a command line: the status it reported
\* for it and, for a wrapper, the job it started (pid), the job's writes, how
\* many of them came before the PID line (at) and the job's own exit status
NoJob == [status |-> 0, pid |-> 0, writes |-> <<>>, at |-> 0, exit |-> 0]

Rejected(rc) == [status |-> rc, pid |-> 0, writes |-> <<>>, at |-> 0, exit |-> 0]

Started(p, ws, k, x) == [status |-> 0, pid |-> p, writes |-> ws, at |-> k, exit |-> x]

\* A transport fault: paramiko's SSHException, with its str(e)
SSHFault == [kind |-> "SSHException", msg |-> "ssh fault", result |-> None,
             job |-> NoJob]

\* Invoke's UnexpectedExit for a command that ended with non-zero status
ExitFault == [kind |-> "UnexpectedExit", msg |-> "unexpected exit",
              result |-> None, job |-> NoJob]

\* client.run returning a Result
Answer(res, j) == [kind |-> "result", msg |-> "", result |-> res, job |-> j]

\* Answers of client.run(command + " & echo $!", hide=True) on a session
\* that connects: a fault, a wrapper the shell rejected, or a started job
RunAnswers ==
    {SSHFault, ExitFault, Answer(Result(<<>>, "syntax error", 2), Rejected(2))}
    \cup UNION {{Answer(Result(WrapperOutput(p, ws, k), e.stderr, 0),
                        Started(p, ws, k, e.exit)) :
                    p \in Pids, k \in 0..Len(ws), e \in JobEnds} : ws \in JobWrites}

\* Answers of client.run("kill " + str(pid), hide=True) on such a session
KillAnswers ==
    {SSHFault, ExitFault, Answer(Result(<<>>, "", 0), NoJob),
     Answer(Result(<<>>, "no such process", 1), Rejected(1))}

\* Unreachable host or rejected credentials: every request faults
RunResponses(up) == IF up THEN RunAnswers ELSE {SSHFault}

KillResponses(up) == IF up THEN KillAnswers ELSE {SSHFault}

(***************************************************************************)
(* RemoteCommand's methods.  Each operator takes the fields it reads, the  *)
(* session's answer where it issues a request, and the verbosity, and      *)
(* gives the fields afterwards, what the caller got and what was sent.     *)
(***************************************************************************)
\* A constructor that opens the connection itself and fails when it cannot
ConstructEager(up, v) ==
    [result |-> None, kill |-> None, client |-> TheClient,
     out |-> IF up THEN Returned("None", 0, <<>>)
             ELSE Raised("ConnectionError", "cannot connect", FALSE),
     sent |-> NoRequest]

\* __init__: Connection(...) only creates the client, it opens nothing
Construct(up, v) ==
    [result |-> None, kill |-> None, client |-> TheClient,
     out |-> Returned("None", 0, <<>>), sent |-> NoRequest]

\* A request without the suffix that backgrounds the command
RunRequestBare(cmd) == <<[text |-> cmd, hide |-> TRUE]>>

\* The request run() submits
RunRequest(cmd) == <<[text |-> cmd \o Suffix, hide |-> TRUE]>>

\* A run() without the check of result.ok
RunCallUnchecked(cmd, res, kil, resp, v) ==
    [result |-> IF resp.kind = "result" THEN resp.result ELSE res,
     kill   |-> kil,
     out    |-> IF resp.kind = "SSHException"
                  THEN Raised("RemoteCommandException", resp.msg, debug(v))
                ELSE IF resp.kind = "UnexpectedExit"
                  THEN Raised("UnexpectedExit", resp.msg, FALSE)
                ELSE Returned("None", 0, <<>>),
     sent   |-> RunRequest(cmd)]

\* A run() that submits the request again after a transport fault
RunCallRetry(cmd, res, kil, resp, v) ==
    [result |-> IF resp.kind = "result" THEN resp.result ELSE res,
     kill   |-> kil,
     out    |-> IF resp.kind = "SSHException"
                  THEN Raised("RemoteCommandException", resp.msg, debug(v))
                ELSE IF resp.kind = "UnexpectedExit"
                  THEN Raised("UnexpectedExit", resp.msg, FALSE)
                ELSE IF ~resp.result.ok
                  THEN Raised("RemoteCommandException", resp.result.stderr, FALSE)
                ELSE Returned("None", 0, <<>>),
     sent   |-> IF resp.kind = "SSHException"
                  THEN RunRequest(cmd) \o RunRequest(cmd)
                ELSE RunRequest(cmd)]

\* A run() that forgets the earlier result when the session faults
RunCallClearsOnFault(cmd, res, kil, resp, v) ==
    [result |-> IF resp.kind = "result" THEN resp.result
                ELSE IF resp.kind = "SSHException" THEN None ELSE res,
     kill   |-> kil,
     out    |-> IF resp.kind = "SSHException"
                  THEN Raised("RemoteCommandException", resp.msg, debug(v))
                ELSE IF resp.kind = "UnexpectedExit"
                  THEN Raised("UnexpectedExit", resp.msg, FALSE)
                ELSE IF ~resp.result.ok
                  THEN Raised("RemoteCommandException", resp.result.stderr, FALSE)
                ELSE Returned("None", 0, <<>>),
     sent   |-> RunRequest(cmd)]

\* run(): only SSHException is caught; the result is stored before .ok is read
RunCall(cmd, res, kil, resp, v) ==
    [result |-> IF resp.kind = "result" THEN resp.result ELSE res,
     kill   |-> kil,
     out    |-> IF resp.kind = "SSHException"
                  THEN Raised("RemoteCommandException", resp.msg, debug(v))
                ELSE IF resp.kind = "UnexpectedExit"
                  THEN Raised("UnexpectedExit", resp.msg, FALSE)
                ELSE IF ~resp.result.ok
                  THEN Raised("RemoteCommandException", resp.result.stderr, FALSE)
                ELSE Returned("None", 0, <<>>),
     sent   |-> RunRequest(cmd)]

\* self.result.stdout.split('\n')[0]
FirstLine(res) == Split(res.stdout)[1]

\* get_pid(): None has no stdout; int() of line 1
GetPid(res, v) ==
    IF ~res.present THEN Raised("AttributeError", "NoneType", FALSE)
    ELSE IF ~IsInt(FirstLine(res)) THEN Raised("ValueError", "invalid literal", FALSE)
    ELSE Returned("int", IntOf(FirstLine(res)), <<>>)

GetPidCall(res, kil, v) ==
    [result |-> res, kill |-> kil, out |-> GetPid(res, v), sent |-> NoRequest]

\* get_output(): "\n".join(self.result.stdout.split('\n')[1:])
GetOutput(res, v) ==
    IF ~res.present THEN Raised("AttributeError", "NoneType", FALSE)
    ELSE Returned("str", 0, Join(Tail(Split(res.stdout))))

\* A get_output() that drops the PID line from the stored result
GetOutputCallDropsLine(res, kil, v) ==
    [result |-> IF res.present
                  THEN [res EXCEPT !.stdout = Join(Tail(Split(res.stdout)))]
                ELSE res,
     kill |-> kil, out |-> GetOutput(res, v), sent |-> NoRequest]

GetOutputCall(res, kil, v) ==
    [result |-> res, kill |-> kil, out |-> GetOutput(res, v), sent |-> NoRequest]

\* A get_exit_code() that answers 0 when nothing has been captured
GetExitCodeOrZero(res, v) ==
    IF ~res.present THEN Returned("int", 0, <<>>)
    ELSE Returned("int", res.return_code, <<>>)

\* get_exit_code(): self.result.return_code
GetExitCode(res, v) ==
    IF ~res.present THEN Raised("AttributeError", "NoneType", FALSE)
    ELSE Returned("int", res.return_code, <<>>)

GetExitCodeCall(res, kil, v) ==
    [result |-> res, kill |-> kil, out |-> GetExitCode(res, v), sent |-> NoRequest]

\* The request terminate() submits
KillRequest(pid) ==
    <<[text |-> <<"k", "i", "l", "l", " ">> \o Str(pid), hide |-> TRUE]>>

\* The narration after a kill that succeeded: str + int raises TypeError
KillNarration(v) ==
    IF print_statistic(v) THEN Raised("TypeError", "can only concatenate str", FALSE)
    ELSE Returned("None", 0, <<>>)

\* A terminate() that assigns the kill's result to self.result
TerminateCallIntoResult(res, kil, resp, v) ==
    LET pid == GetPid(res, v)
    IN  IF pid.exc # "none"
          THEN [result |-> res, kill |-> kil, out |-> pid, sent |-> NoRequest]
        ELSE
          [result |-> IF resp.kind = "result" THEN resp.result ELSE res,
           kill   |-> kil,
           out    |-> IF resp.kind \in {"SSHException", "UnexpectedExit"}
                        THEN Raised("RemoteCommandException", resp.msg, debug(v))
                      ELSE IF ~resp.result.ok
                        THEN Raised("RemoteCommandException", res.stderr, FALSE)
                      ELSE KillNarration(v),
           sent   |-> KillRequest(pid.ival)]

\* A terminate() that kills the number of the run's status, not the PID
TerminateCallKillsStatus(res, kil, resp, v) ==
    LET pid == GetPid(res, v)
    IN  IF pid.exc # "none"
          THEN [result |-> res, kill |-> kil, out |-> pid, sent |-> NoRequest]
        ELSE
          [result |-> res,
           kill   |-> IF resp.kind = "result" THEN resp.result ELSE kil,
           out    |-> IF resp.kind \in {"SSHException", "UnexpectedExit"}
                        THEN Raised("RemoteCommandException", resp.msg, debug(v))
                      ELSE IF ~resp.result.ok
                        THEN Raised("RemoteCommandException", res.stderr, FALSE)
                      ELSE KillNarration(v),
           sent   |-> KillRequest(res.return_code)]

\* A terminate() that does not keep the kill's result
TerminateCallNoStore(res, kil, resp, v) ==
    LET pid == GetPid(res, v)
    IN  IF pid.exc # "none"
          THEN [result |-> res, kill |-> kil, out |-> pid, sent |-> NoRequest]
        ELSE
          [result |-> res,
           kill   |-> kil,
           out    |-> IF resp.kind \in {"SSHException", "UnexpectedExit"}
                        THEN Raised("RemoteCommandException", resp.msg, debug(v))
                      ELSE IF ~resp.result.ok
                        THEN Raised("RemoteCommandException", res.stderr, FALSE)
                      ELSE KillNarration(v),
           sent   |-> KillRequest(pid.ival)]

\* A terminate() that raises the kill's own standard-error text
TerminateCallKillStderr(res, kil, resp, v) ==
    LET pid == GetPid(res, v)
    IN  IF pid.exc # "none"
          THEN [result |-> res, kill |-> kil, out |-> pid, sent |-> NoRequest]
        ELSE
          [result |-> res,
           kill   |-> IF resp.kind = "result" THEN resp.result ELSE kil,
           out    |-> IF resp.kind \in {"SSHException", "UnexpectedExit"}
                        THEN Raised("RemoteCommandException", resp.msg, debug(v))
                      ELSE IF ~resp.result.ok
                        THEN Raised("RemoteCommandException", resp.result.stderr, FALSE)
                      ELSE KillNarration(v),
           sent   |-> KillRequest(pid.ival)]

\* terminate(): get_pid() outside the try; the kill's result is stored
\* before .ok is read; on non-success the run's stderr is raised
TerminateCall(res, kil, resp, v) ==
    LET pid == GetPid(res, v)
    IN  IF pid.exc # "none"
          THEN [result |-> res, kill |-> kil, out |-> pid, sent |-> NoRequest]
        ELSE
          [result |-> res,
           kill   |-> IF resp.kind = "result" THEN resp.result ELSE kil,
           out    |-> IF resp.kind \in {"SSHException", "UnexpectedExit"}
                        THEN Raised("RemoteCommandException", resp.msg, debug(v))
                      ELSE IF ~resp.result.ok
                        THEN Raised("RemoteCommandException", res.stderr, FALSE)
                      ELSE KillNarration(v),
           sent   |-> KillRequest(pid.ival)]

(***************************************************************************)
(* State                                                                   *)
(***************************************************************************)
VARIABLES
    given,      \* the command argument given to __init__
    command,    \* self.command
    client,     \* self.client
    verbosity,  \* the -v count behind print_statistic and debug
    sessionUp,  \* the host is reachable and the credentials are accepted
    result,     \* self.result
    kill,       \* self.kill
    call,       \* the method called last
    out,        \* what that call returned or raised
    sent,       \* the requests that call issued
    via,        \* the connection those requests went through
    changed,    \* which fields that call assigned a new value
    answer,     \* the session's answer to that call's request, if any
    job,        \* what the shell did with the last wrapper that completed
    ranOk,      \* some run() call has returned without raising
    ranFailed,  \* some run() call has raised
    lastRun,    \* how the most recent run() call ended: none, ok, failed
    terminated, \* terminate() has been called
    quiet       \* the same calls and answers with verbosity 0

vars == <<given, command, client, verbosity, sessionUp, result, kill, call,
          out, sent, via, changed, answer, job, ranOk, ranFailed, lastRun,
          terminated, quiet>>

NoAnswer == [kind |-> "none", msg |-> "", result |-> None, job |-> NoJob]

Fields(r) == [result |-> r.result, kill |-> r.kill, out |-> r.out]

\* The fields and observations after a method call: r at the chosen
\* verbosity, q at verbosity 0
Effect(name, r, q) ==
    /\ call' = name
    /\ result' = r.result
    /\ kill' = r.kill
    /\ out' = r.out
    /\ sent' = r.sent
    /\ via' = IF r.sent = NoRequest THEN NoClient ELSE client
    /\ command' = command
    /\ client' = client
    /\ changed' = [result |-> r.result # result, kill |-> r.kill # kill,
                   command |-> command' # command, client |-> client' # client]
    /\ terminated' = (terminated \/ name = "terminate")
    /\ quiet' = Fields(q)
    /\ UNCHANGED <<given, verbosity, sessionUp>>

Init ==
    /\ given \in Commands
    /\ command = given
    /\ verbosity \in Verbosity
    /\ sessionUp \in BOOLEAN
    /\ call = "__init__"
    /\ client = Construct(sessionUp, verbosity).client
    /\ result = Construct(sessionUp, verbosity).result
    /\ kill = Construct(sessionUp, verbosity).kill
    /\ out = Construct(sessionUp, verbosity).out
    /\ sent = Construct(sessionUp, verbosity).sent
    /\ via = NoClient
    /\ changed = [result |-> FALSE, kill |-> FALSE, command |-> FALSE,
                  client |-> FALSE]
    /\ terminated = FALSE
    /\ answer = NoAnswer
    /\ job = NoJob
    /\ ranOk = FALSE
    /\ ranFailed = FALSE
    /\ lastRun = "none"
    /\ quiet = Fields(Construct(sessionUp, 0))

Run ==
    \E resp \in RunResponses(sessionUp) :
        LET r == RunCall(command, result, kill, resp, verbosity)
            q == RunCall(command, quiet.result, quiet.kill, resp, 0)
        IN  /\ Effect("run", r, q)
            /\ answer' = resp
            /\ job' = IF resp.kind = "result" THEN resp.job ELSE job
            /\ ranOk' = (ranOk \/ r.out.exc = "none")
            /\ ranFailed' = (ranFailed \/ r.out.exc # "none")
            /\ lastRun' = IF r.out.exc = "none" THEN "ok" ELSE "failed"

Get_pid ==
    /\ Effect("get_pid", GetPidCall(result, kill, verbosity),
                         GetPidCall(quiet.result, quiet.kill, 0))
    /\ answer' = NoAnswer
    /\ UNCHANGED <<job, ranOk, ranFailed, lastRun>>

Get_output ==
    /\ Effect("get_output", GetOutputCall(result, kill, verbosity),
                            GetOutputCall(quiet.result, quiet.kill, 0))
    /\ answer' = NoAnswer
    /\ UNCHANGED <<job, ranOk, ranFailed, lastRun>>

Get_exit_code ==
    /\ Effect("get_exit_code", GetExitCodeCall(result, kill, verbosity),
                               GetExitCodeCall(quiet.result, quiet.kill, 0))
    /\ answer' = NoAnswer
    /\ UNCHANGED <<job, ranOk, ranFailed, lastRun>>

Terminate ==
    \E resp \in KillResponses(sessionUp) :
        LET r == TerminateCall(result, kill, resp, verbosity)
            q == TerminateCall(quiet.result, quiet.kill, resp, 0)
        IN  /\ Effect("terminate", r, q)
            /\ answer' = IF r.sent = NoRequest THEN NoAnswer ELSE resp
            /\ UNCHANGED <<job, ranOk, ranFailed, lastRun>>

Next == Run \/ Get_pid \/ Get_output \/ Get_exit_code \/ Terminate

Spec == Init /\ [][Next]_vars

(***************************************************************************)
(* Properties                                                              *)
(***************************************************************************)
Accessors == {"get_pid", "get_output", "get_exit_code"}

Failed(o) == o.exc # "none"

\* C1: while no run() call has succeeded, lastResult is absent and each of
\* get_pid(), get_output() and get_exit_code() fails with an error instead
\* of returning a value.
C1_NoValueBeforeSuccessfulRun ==
    ~ranOk => /\ result = None
              /\ Failed(GetPid(result, verbosity))
              /\ Failed(GetOutput(result, verbosity))
              /\ Failed(GetExitCode(result, verbosity))

\* C2: terminate() on an instance on which no run() has succeeded fails
\* with RemoteCommandException and issues no kill command.
C2_TerminateBeforeRunIsTerminationError ==
    (call = "terminate" /\ ~ranOk) =>
        (out.exc = "RemoteCommandException" /\ sent = NoRequest)

\* C3: after a successful run(), line 1 of the captured output is the PID
\* that `echo $!` printed and the lines after it are the command's own
\* output, however the job's writes interleave with the PID line.
C3_FirstLineIsPid ==
    lastRun = "ok" =>
        /\ FirstLine(result) = Str(job.pid)
        /\ Join(Tail(Split(result.stdout))) = Flatten(job.writes)

\* C4: a run() call returns nothing or raises RemoteCommandException,
\* for a transport fault and for a wrapper that ended with non-success
\* status alike; it raises no other error.
C4_RunRaisesOnlyExecutionError ==
    call = "run" => out.exc \in {"none", "RemoteCommandException"}

C6_PidAndOutputRebuildCapture ==
    lastRun = "ok" =>
        LET pid    == GetPid(result, verbosity)
            output == GetOutput(result, verbosity)
        IN  /\ ~Failed(pid)
            /\ ~Failed(output)
            /\ \A i \in 1..Len(Split(output.sval)) :
                   Split(output.sval)[i] # Str(job.pid)
            /\ Str(pid.ival) \o <<NL>> \o output.sval = result.stdout

Visible(o) == [o EXCEPT !.context = FALSE]

\* C8: every call returns or raises the same, and leaves the same
\* lastResult and lastTerminationResult, at every verbosity.
C8_SameOutcomeAtEveryVerbosity ==
    /\ Visible(out) = Visible(quiet.out)
    /\ result = quiet.result
    /\ kill = quiet.kill

\* C9 (as claimed): with the host unreachable or the credentials bad,
\* construction fails with ConnectionError and no run() request reaches
\* the session.
C9_ConstructionFails ==
    ~sessionUp => (call = "__init__" /\ out.exc = "ConnectionError")

\* C9 (amended): with the host unreachable or the credentials bad,
\* construction still succeeds and sends nothing; the first run() issues
\* its request and fails, and lastResult stays absent.
C9_FaultSurfacesAtRun ==
    ~sessionUp =>
        /\ call = "__init__" => (~Failed(out) /\ sent = NoRequest)
        /\ call = "run" => (Failed(out) /\ sent = RunRequest(command))
        /\ ~result.present

\* run() was called on an instance whose host cannot be reached
C9_Witness ==
    /\ ~sessionUp
    /\ call = "run"
    /\ Len(sent) = 1
    /\ out.exc = "RemoteCommandException"

\* terminate() sent its kill after a successful run and failed by a fault
\* of the session or by the kill's non-success
KillFailed ==
    /\ call = "terminate"
    /\ sent # NoRequest
    /\ ranOk
    /\ \/ answer.kind \in {"SSHException", "UnexpectedExit"}
       \/ answer.kind = "result" /\ ~answer.result.ok

\* C10 (as claimed): a terminate() that fails from READY raises
\* RemoteCommandException and leaves lastResult and lastTerminationResult
\* as they were.
C10_FailedTerminateChangesNothing ==
    KillFailed => /\ out.exc = "RemoteCommandException"
                  /\ ~changed.result
                  /\ ~changed.kill

\* C10 (amended): such a terminate() raises RemoteCommandException and
\* leaves lastResult as it was; lastTerminationResult is as it was when the
\* session faulted, and is the failed kill's result when the kill
\* completed with non-success status.
C10_FailedTerminateKeepsResult ==
    KillFailed => /\ out.exc = "RemoteCommandException"
                  /\ ~changed.result
                  /\ answer.kind # "result" => ~changed.kill
                  /\ answer.kind = "result" => kill = answer.result

\* A kill that completed with non-success status, stored by terminate()
C10_Witness ==
    /\ KillFailed
    /\ answer.kind = "result"
    /\ changed.kill
    /\ kill.stderr = "no such process"

\* "kill " as terminate() writes it
KillWord == <<"k", "i", "l", "l", " ">>

\* C11: every command terminate() sends is `kill <pid>` with the integer
\* get_pid() parses from the current lastResult, through the connection made
\* at construction, which run() uses too; no call replaces that connection.
C11_KillTargetsParsedPidOnSameSession ==
    /\ client = TheClient
    /\ ~changed.client
    /\ sent # NoRequest => via = TheClient
    /\ (call = "terminate" /\ sent # NoRequest) =>
           /\ Len(sent) = 1
           /\ ~Failed(GetPid(result, verbosity))
           /\ sent[1].text = KillWord \o Str(GetPid(result, verbosity).ival)

\* terminate() sent a kill for a two-digit PID
C11_Witness ==
    /\ call = "terminate"
    /\ via = TheClient
    /\ sent = <<[text |-> <<"k", "i", "l", "l", " ", "1", "2">>, hide |-> TRUE]>>

\* C12 (Scenario D): for a command that writes exactly one line L and exits
\* 0, after a successful run() get_output() is exactly L and get_exit_code()
\* is 0.
C12_OneLineCommandGivesThatLine ==
    (lastRun = "ok" /\ job.writes = <<(<<"h", NL>>)>> /\ job.exit = 0) =>
        /\ GetOutput(result, verbosity) = Returned("str", 0, <<"h">>)
        /\ GetExitCode(result, verbosity) = Returned("int", 0, <<>>)

\* C13: lastTerminationResult is absent until terminate() is first called;
\* after a terminate() that returns without error it is that call's kill
\* result, with ok true, and lastResult is as before.
C13_TerminationResultStored ==
    /\ ~terminated => kill = None
    /\ (call = "terminate" /\ ~Failed(out)) =>
           /\ answer.kind = "result"
           /\ kill = answer.result
           /\ kill.present
           /\ kill.ok
           /\ ~changed.result

\* terminate() returned after a kill that succeeded
C13_Witness ==
    /\ call = "terminate"
    /\ ~Failed(out)
    /\ kill.present
    /\ kill.ok
    /\ changed.kill

\* C14: run() and terminate() issue at most one request per call, and a
\* request that faults is raised to the caller with no second request.
C14_NoRetry ==
    /\ Len(sent) <= 1
    /\ (call \in {"run", "terminate"} /\ answer.kind = "SSHException") =>
           (Failed(out) /\ Len(sent) = 1)

\* A run() and a terminate() whose one request faulted
C14_Witness ==
    /\ call = "terminate"
    /\ answer.kind = "SSHException"
    /\ Len(sent) = 1
    /\ ranFailed
    /\ out.exc = "RemoteCommandException"

\* C15: get_pid(), get_output() and get_exit_code() issue no request and
\* leave command, session, lastResult and lastTerminationResult as they
\* were; only run() changes lastResult and only terminate() changes
\* lastTerminationResult.
C15_AccessorsArePure ==
    /\ call \in Accessors =>
           /\ sent = NoRequest
           /\ via = NoClient
           /\ ~changed.command
           /\ ~changed.client
           /\ ~changed.result
           /\ ~changed.kill
    /\ changed.result => call = "run"
    /\ changed.kill => call = "terminate"

\* get_output() returned the text after the PID line of a stored result
C15_Witness ==
    /\ call = "get_output"
    /\ result.present
    /\ result.stdout = <<"1", "2", NL, "h", NL>>
    /\ out = Returned("str", 0, <<"h", NL>>)
    /\ kill.present

\* C16: every request run() issues carries the command text given at
\* construction followed by " & echo $!", with output hidden; the stored
\* command never changes.
C16_RunSendsCommandWithSuffix ==
    /\ command = given
    /\ ~changed.command
    /\ call = "run" =>
           sent = <<[text |-> given \o <<" ", "&", " ", "e", "c", "h", "o", " ", "$", "!">>,
                     hide |-> TRUE]>>

\* A second run(), after a terminate(), sent the wrapper of the command
C16_Witness ==
    /\ call = "run"
    /\ terminated
    /\ ranOk
    /\ ranFailed
    /\ given = <<"l", "s">>
    /\ sent[1].text = <<"l", "s", " ", "&", " ", "e", "c", "h", "o", " ", "$", "!">>

\* The kill that terminate() sent completed with non-success status
KillNotOk ==
    /\ call = "terminate"
    /\ sent # NoRequest
    /\ answer.kind = "result"
    /\ ~answer.result.ok

\* C17: when the kill completes with non-success status, the error raised
\* carries the standard-error text of the run's result (lastResult), not
\* that of the kill's own result.
C17_KillFailureCarriesRunStderr ==
    KillNotOk => /\ out.exc = "RemoteCommandException"
                 /\ out.msg = result.stderr
                 /\ out.msg # answer.result.stderr

\* A failed kill after a run whose job wrote to standard error
C17_Witness ==
    /\ KillNotOk
    /\ result.stderr = "warning"
    /\ kill.stderr = "no such process"
    /\ out.msg = "warning"

\* C18: a run() that fails by a transport fault leaves lastResult as it was
\* before the call, so the accessors and terminate() afterwards work on
\* the earlier result.
C18_FaultedRunKeepsResult ==
    (call = "run" /\ answer.kind = "SSHException") =>
        /\ out.exc = "RemoteCommandException"
        /\ ~changed.result
        /\ ~changed.kill
        /\ lastRun = "failed"

\* A run() faulted after an earlier run() had succeeded, and its result
\* is still there
C18_Witness ==
    /\ call = "run"
    /\ answer.kind = "SSHException"
    /\ ranOk
    /\ result.present
    /\ result.ok
    /\ ~Failed(GetPid(result, verbosity))

====
